---- MODULE Spec2Model ----
(***************************************************************************)
(* Notes API (backend - fastAPI/main.py): one SQLite table `notes` and the  *)
(* five request handlers get_notes, get_note, create_note, update_note and  *)
(* delete_note.                                                             *)
(*                                                                          *)
(* Spec      the handlers run one request at a time (they are `async def`   *)
(*           bodies without an await, served by one event loop) against a   *)
(*           store whose statements succeed.                                *)
(* SpecFail  the same handlers when a store statement may raise             *)
(*           sqlite3.Error.                                                 *)
(* SpecConc  create_note, update_note and delete_note of several server     *)
(*           processes on the same database file, interleaved between       *)
(*           their store statements.                                        *)
(***************************************************************************)
EXTENDS Naturals, Sequences, FiniteSets

VARIABLES notes, seq, clock, resp, issued, deleted, scen, req, lastWriter

vars == <<notes, seq, clock, resp, issued, deleted, scen, req, lastWriter>>

(* ------------------------------ bounds --------------------------------- *)
\* AUTOINCREMENT ids handed out in one run
MaxId == 3
\* seconds and microseconds the wall clock runs through
MaxSec == 1
MaxUs == 1
\* concurrent requests in flight, and ids handed out, in SpecConc
MaxSlot == 2
MaxConcId == 1
\* ids handed out in SpecFail
MaxFailId == 1

(* ------------------------------ values --------------------------------- *)
Ids == 1..MaxId
TitleVals == {"", "T"}
ContentVals == {"", "C"}

\* Optional[str]: <<>> is None, <<x>> is the string x
None == <<>>
Some(x) == <<x>>
Opt(S) == {None} \cup {Some(x) : x \in S}

\* datetime: <<second, microsecond>>
ClockValues == (0..MaxSec) \X (0..MaxUs)
TimeLess(a, b) == a[1] < b[1] \/ (a[1] = b[1] /\ a[2] < b[2])
TimeLeq(a, b) == a = b \/ TimeLess(a, b)

\* datetime.isoformat(): the zero-padded fields, the microsecond field left
\* out when it is 0 ('...T12:00:01' against '...T12:00:01.000001')
isoformat(t) == IF t[2] = 0 THEN <<t[1]>> ELSE <<t[1], t[2]>>

\* SQLite's BINARY collation on TEXT: memcmp on the common prefix, then the
\* shorter string first
RECURSIVE TextLess(_, _)
TextLess(a, b) ==
    IF a = <<>> THEN b # <<>>
    ELSE IF b = <<>> THEN FALSE
    ELSE IF Head(a) # Head(b) THEN Head(a) < Head(b)
    ELSE TextLess(Tail(a), Tail(b))
TextLeq(a, b) == a = b \/ TextLess(a, b)

(* ------------------------------ the store ------------------------------ *)
\* CREATE TABLE notes (id INTEGER PRIMARY KEY AUTOINCREMENT, title, content,
\* created_at, updated_at)
Row(i, t, c, ca, ua) ==
    [id |-> i, title |-> t, content |-> c, created_at |-> ca, updated_at |-> ua]

RowIds(tbl) == {r.id : r \in tbl}

SetMax(S) == IF S = {} THEN 0 ELSE CHOOSE m \in S : \A x \in S : x <= m

\* SELECT * FROM notes WHERE id = ? ; fetchone(): <<>> is None
SelectById(tbl, i) ==
    IF \E r \in tbl : r.id = i THEN <<CHOOSE r \in tbl : r.id = i>> ELSE <<>>

\* mutant: the rowid of a table declared without AUTOINCREMENT, one more than
\* the largest rowid now in the table
MutNextRowId(tbl, s) == SetMax(RowIds(tbl)) + 1

\* the rowid INSERT picks under AUTOINCREMENT: one more than the largest
\* rowid the table has ever held (sqlite_sequence)
NextRowId(tbl, s) == SetMax(RowIds(tbl) \cup {s}) + 1

\* INSERT INTO notes (title, content, created_at, updated_at) VALUES (?,?,?,?)
InsertRow(tbl, s, t, c, now) == tbl \cup {Row(NextRowId(tbl, s), t, c, now, now)}

\* mutant: the UPDATE leaves updated_at alone
MutUpdateRowKeepStamp(tbl, i, t, c, ua) ==
    {IF r.id = i THEN [r EXCEPT !.title = t, !.content = c] ELSE r : r \in tbl}

\* mutant: the UPDATE writes only over a row that is not newer
\* (... WHERE id = ? AND updated_at <= ?)
MutUpdateRowIfNewer(tbl, i, t, c, ua) ==
    {IF r.id = i /\ TextLeq(r.updated_at, ua)
     THEN [r EXCEPT !.title = t, !.content = c, !.updated_at = ua] ELSE r : r \in tbl}

\* UPDATE notes SET title = ?, content = ?, updated_at = ? WHERE id = ?
UpdateRow(tbl, i, t, c, ua) ==
    {IF r.id = i THEN [r EXCEPT !.title = t, !.content = c, !.updated_at = ua] ELSE r
        : r \in tbl}

\* mutant: the DELETE is never committed
MutDeleteRow(tbl, i) == tbl

\* DELETE FROM notes WHERE id = ?
DeleteRow(tbl, i) == {r \in tbl : r.id # i}

\* mutant: ORDER BY updated_at, ascending
MutOrderAsc(tbl) ==
    LET n == Cardinality(tbl)
    IN {s \in [1..n -> tbl] :
          /\ \A i, j \in 1..n : i # j => s[i] # s[j]
          /\ \A i, j \in 1..n : i < j => TextLeq(s[i].updated_at, s[j].updated_at)}

\* SELECT * FROM notes ORDER BY updated_at DESC ; fetchall(): every order of
\* the rows with updated_at descending (rows with equal keys come in an order
\* SQLite does not define)
OrderByUpdatedDesc(tbl) ==
    LET n == Cardinality(tbl)
    IN {s \in [1..n -> tbl] :
          /\ \A i, j \in 1..n : i # j => s[i] # s[j]
          /\ \A i, j \in 1..n : i < j => TextLeq(s[j].updated_at, s[i].updated_at)}

\* mutant: a field the request leaves out is cleared
MutOrElse(opt, existing) == IF opt # None THEN opt[1] ELSE ""

\* value if value is not None else existing
OrElse(opt, existing) == IF opt # None THEN opt[1] ELSE existing

(* ------------------------------ responses ------------------------------ *)
\* the request that finished last: its operation and arguments, the HTTP
\* status, the rows of the JSON body and whether its connection was closed
Response(op, i, t, c, status, body, conn) ==
    [op |-> op, id |-> i, title |-> t, content |-> c,
     status |-> status, body |-> body, conn |-> conn]

NoResponse == Response("none", 0, None, None, 0, <<>>, "none")

\* a request slot of SpecConc
IdleReq ==
    [pc |-> "idle", op |-> "none", id |-> 0, title |-> None, content |-> None,
     existing |-> <<>>, new_title |-> "", new_content |-> "", now |-> <<>>,
     status |-> 0, body |-> <<>>, conn |-> "none"]

Slots == 1..MaxSlot

\* the wall clock when the server starts: a reading with microseconds, the
\* next full second being the first one isoformat() writes without them
StartTime == <<0, MaxUs>>

Init ==
    /\ notes = {}
    /\ seq = 0
    /\ clock = StartTime
    /\ resp = NoResponse
    /\ issued = <<>>
    /\ deleted = {}
    /\ scen = <<>>
    /\ req = [s \in Slots |-> IdleReq]
    /\ lastWriter = [i \in Ids |-> 0]

\* datetime.now() moves on between requests
Tick ==
    /\ \E t \in ClockValues : TimeLess(clock, t) /\ clock' = t
    /\ UNCHANGED <<notes, seq, resp, issued, deleted, scen, req, lastWriter>>

(* ---------------- the handlers, one request at a time ------------------ *)
\* History of the run, for the listing scenario: the creates that changed the
\* store so far, <<"A", "B", "C", "A">> after three creates and then an update
\* of the first created note, ScenOff once the store was changed otherwise.
ScenOff == <<"off">>
ScenSteps == <<"A", "B", "C", "A">>
ScenAfter(k, ids, before, after, r) ==
    IF r.status # 200 THEN (IF after = before THEN k ELSE ScenOff)
    ELSE IF k = ScenOff THEN ScenOff
    ELSE IF r.op = "create" THEN (IF Len(k) < 3 THEN SubSeq(ScenSteps, 1, Len(k) + 1) ELSE ScenOff)
    ELSE IF r.op = "put" THEN (IF Len(k) = 3 /\ r.id = ids[1] THEN ScenSteps ELSE ScenOff)
    ELSE ScenOff

\* `fail` names the store call of the handler that raises sqlite3.Error
\* ("none": every call succeeds). A handler has no try/finally: a raised
\* error leaves the function before conn.close(), and the uncommitted
\* statement is rolled back.
ConnAfter(fail) == IF fail = "none" THEN "closed" ELSE IF fail = "connect" THEN "none" ELSE "open"

\* GET /notes
get_notes(fail) ==
    /\ fail \in {"none", "connect", "select"}
    /\ IF fail = "none"
       THEN \E rows \in OrderByUpdatedDesc(notes) :
               resp' = Response("list", 0, None, None, 200, rows, "closed")
       ELSE resp' = Response("list", 0, None, None, 500, <<>>, ConnAfter(fail))
    /\ UNCHANGED <<notes, seq, clock, issued, deleted, scen, req, lastWriter>>

\* GET /notes/{note_id}
get_note(note_id, fail) ==
    /\ fail \in {"none", "connect", "select"}
    /\ LET note == SelectById(notes, note_id)
       IN resp' =
            IF fail # "none"
            THEN Response("get", note_id, None, None, 500, <<>>, ConnAfter(fail))
            ELSE IF note = <<>>
            THEN Response("get", note_id, None, None, 404, <<>>, "closed")
            ELSE Response("get", note_id, None, None, 200, note, "closed")
    /\ UNCHANGED <<notes, seq, clock, issued, deleted, scen, req, lastWriter>>

\* NoteCreate: title: str, content: str, both required
ValidCreate(title, content) == title # None /\ content # None

\* POST /notes
create_note(title, content, fail) ==
    /\ fail \in {"none", "connect", "insert", "commit", "select"}
    /\ IF ~ValidCreate(title, content)
       THEN /\ fail = "none"
            /\ resp' = Response("create", 0, title, content, 422, <<>>, "none")
            /\ UNCHANGED <<notes, seq, issued>>
       ELSE LET now == isoformat(clock)
                note_id == NextRowId(notes, seq)
                inserted == InsertRow(notes, seq, title[1], content[1], now)
            IN IF fail \in {"connect", "insert", "commit"}
               THEN /\ resp' = Response("create", 0, title, content, 500, <<>>, ConnAfter(fail))
                    /\ UNCHANGED <<notes, seq, issued>>
               ELSE /\ notes' = inserted
                    /\ seq' = note_id
                    /\ IF fail = "select"
                       THEN /\ resp' = Response("create", 0, title, content, 500, <<>>, "open")
                            /\ UNCHANGED issued
                       ELSE /\ resp' = Response("create", 0, title, content, 200,
                                                SelectById(inserted, note_id), "closed")
                            /\ issued' = Append(issued, SelectById(inserted, note_id)[1].id)
    /\ scen' = ScenAfter(scen, issued, notes, notes', resp')
    /\ UNCHANGED <<clock, deleted, req, lastWriter>>

\* PUT /notes/{note_id}
update_note(note_id, title, content, fail) ==
    /\ fail \in {"none", "connect", "select", "update", "commit", "reselect"}
    /\ LET existing_note == SelectById(notes, note_id)
       IN IF fail \in {"connect", "select"}
          THEN /\ resp' = Response("put", note_id, title, content, 500, <<>>, ConnAfter(fail))
               /\ UNCHANGED notes
          ELSE IF existing_note = <<>>
          THEN /\ fail = "none"
               /\ resp' = Response("put", note_id, title, content, 404, <<>>, "closed")
               /\ UNCHANGED notes
          ELSE LET new_title == OrElse(title, existing_note[1].title)
                   new_content == OrElse(content, existing_note[1].content)
                   updated_at == isoformat(clock)
                   updated == UpdateRow(notes, note_id, new_title, new_content, updated_at)
               IN IF fail \in {"update", "commit"}
                  THEN /\ resp' = Response("put", note_id, title, content, 500, <<>>, "open")
                       /\ UNCHANGED notes
                  ELSE /\ notes' = updated
                       /\ resp' =
                            IF fail = "reselect"
                            THEN Response("put", note_id, title, content, 500, <<>>, "open")
                            ELSE Response("put", note_id, title, content, 200,
                                          SelectById(updated, note_id), "closed")
    /\ scen' = ScenAfter(scen, issued, notes, notes', resp')
    /\ UNCHANGED <<seq, clock, issued, deleted, req, lastWriter>>

\* mutant: delete_note without its existence check
MutBlindDelete(note_id, fail) ==
    /\ fail = "none"
    /\ notes' = DeleteRow(notes, note_id)
    /\ deleted' = deleted \cup {note_id}
    /\ resp' = Response("delete", note_id, None, None, 200, <<>>, "closed")
    /\ scen' = ScenAfter(scen, issued, notes, notes', resp')
    /\ UNCHANGED <<seq, clock, issued, req, lastWriter>>

\* DELETE /notes/{note_id}
delete_note(note_id, fail) ==
    /\ fail \in {"none", "connect", "select", "delete", "commit"}
    /\ LET note == SelectById(notes, note_id)
       IN IF fail \in {"connect", "select"}
          THEN /\ resp' = Response("delete", note_id, None, None, 500, <<>>, ConnAfter(fail))
               /\ UNCHANGED <<notes, deleted>>
          ELSE IF note = <<>>
          THEN /\ fail = "none"
               /\ resp' = Response("delete", note_id, None, None, 404, <<>>, "closed")
               /\ UNCHANGED <<notes, deleted>>
          ELSE IF fail \in {"delete", "commit"}
          THEN /\ resp' = Response("delete", note_id, None, None, 500, <<>>, "open")
               /\ UNCHANGED <<notes, deleted>>
          ELSE /\ notes' = DeleteRow(notes, note_id)
               /\ deleted' = deleted \cup {note_id}
               /\ resp' = Response("delete", note_id, None, None, 200, <<>>, "closed")
    /\ scen' = ScenAfter(scen, issued, notes, notes', resp')
    /\ UNCHANGED <<seq, clock, issued, req, lastWriter>>

FailPoints == {"none", "connect", "select", "insert", "update", "delete", "commit", "reselect"}

Next ==
    \/ Tick
    \/ get_notes("none")
    \/ \E i \in Ids : get_note(i, "none")
    \/ \E t \in Opt(TitleVals), c \in Opt(ContentVals) : seq < MaxId /\ create_note(t, c, "none")
    \/ \E i \in Ids, t \in Opt(TitleVals), c \in Opt(ContentVals) : update_note(i, t, c, "none")
    \/ \E i \in Ids : delete_note(i, "none")

Spec == Init /\ [][Next]_vars

NextFail ==
    \/ Tick
    \/ \E f \in FailPoints : get_notes(f)
    \/ \E i \in 1..MaxFailId, f \in FailPoints : get_note(i, f)
    \/ \E t \in Opt(TitleVals), c \in Opt(ContentVals), f \in FailPoints :
          seq < MaxFailId /\ create_note(t, c, f)
    \/ \E i \in 1..MaxFailId, t \in Opt(TitleVals), c \in Opt(ContentVals), f \in FailPoints :
          update_note(i, t, c, f)
    \/ \E i \in 1..MaxFailId, f \in FailPoints : delete_note(i, f)

SpecFail == Init /\ [][NextFail]_vars

(* -------- the handlers of concurrent requests, statement by statement --- *)
\* A slot holds one request in flight: its handler's local variables and the
\* place it has reached. A statement with its commit is one step of the
\* store; the steps of different slots interleave freely.
Free(s) == req[s].pc \in {"idle", "done"}

\* the handler returns or raises: its arguments and the row it held go out of
\* scope; the slot keeps the outcome and what the request wrote
Finished(s, status, body) ==
    [req[s] EXCEPT !.pc = "done", !.status = status, !.body = body, !.conn = "closed",
                   !.title = None, !.content = None, !.existing = <<>>]

\* create_note up to conn.commit(): validation, connect, now, INSERT, lastrowid
CreateInsert(s, title, content) ==
    /\ Free(s)
    /\ IF ~ValidCreate(title, content)
       THEN /\ req' = [req EXCEPT ![s] =
                        [IdleReq EXCEPT !.pc = "done", !.op = "create", !.status = 422]]
            /\ UNCHANGED <<notes, seq>>
       ELSE /\ notes' = InsertRow(notes, seq, title[1], content[1], isoformat(clock))
            /\ seq' = NextRowId(notes, seq)
            /\ req' = [req EXCEPT ![s] =
                        [IdleReq EXCEPT !.pc = "inserted", !.op = "create",
                                        !.id = NextRowId(notes, seq), !.title = title,
                                        !.content = content, !.now = isoformat(clock),
                                        !.conn = "open"]]
    /\ UNCHANGED <<clock, resp, issued, deleted, scen, lastWriter>>

\* create_note from the SELECT of the new row: conn.close(), then
\* dict(created_note), which raises TypeError when fetchone() gave None
CreateReread(s) ==
    /\ req[s].pc = "inserted"
    /\ LET created_note == SelectById(notes, req[s].id)
       IN /\ req' = [req EXCEPT ![s] =
                      IF created_note = <<>> THEN Finished(s, 500, <<>>)
                      ELSE Finished(s, 200, created_note)]
          /\ issued' = IF created_note = <<>> THEN issued
                       ELSE Append(issued, created_note[1].id)
    /\ UNCHANGED <<notes, seq, clock, resp, deleted, scen, lastWriter>>

\* update_note up to the existence check: connect, SELECT, 404 when None
PutSelect(s, note_id, title, content) ==
    /\ Free(s)
    /\ LET existing_note == SelectById(notes, note_id)
           r == [IdleReq EXCEPT !.op = "put", !.id = note_id, !.title = title,
                                !.content = content]
       IN req' = [req EXCEPT ![s] =
                   IF existing_note = <<>>
                   THEN [IdleReq EXCEPT !.pc = "done", !.op = "put", !.id = note_id,
                                        !.status = 404, !.conn = "closed"]
                   ELSE [r EXCEPT !.pc = "selected", !.existing = existing_note,
                                  !.conn = "open"]]
    /\ UNCHANGED <<notes, seq, clock, resp, issued, deleted, scen, lastWriter>>

\* update_note: title, content and updated_at = datetime.now().isoformat()
PutCompute(s) ==
    /\ req[s].pc = "selected"
    /\ req[s].op = "put"
    /\ req' = [req EXCEPT ![s] =
                [@ EXCEPT !.pc = "computed",
                          !.new_title = OrElse(req[s].title, req[s].existing[1].title),
                          !.new_content = OrElse(req[s].content, req[s].existing[1].content),
                          !.now = isoformat(clock)]]
    /\ UNCHANGED <<notes, seq, clock, resp, issued, deleted, scen, lastWriter>>

\* update_note: UPDATE and conn.commit()
PutUpdate(s) ==
    /\ req[s].pc = "computed"
    /\ notes' = UpdateRow(notes, req[s].id, req[s].new_title, req[s].new_content, req[s].now)
    /\ lastWriter' = [lastWriter EXCEPT ![req[s].id] = s]
    /\ req' = [req EXCEPT ![s] = [@ EXCEPT !.pc = "updated"]]
    /\ UNCHANGED <<seq, clock, resp, issued, deleted, scen>>

\* update_note from the second SELECT: conn.close(), then dict(updated_note),
\* which raises TypeError when fetchone() gave None
PutReread(s) ==
    /\ req[s].pc = "updated"
    /\ LET updated_note == SelectById(notes, req[s].id)
       IN req' = [req EXCEPT ![s] =
                   IF updated_note = <<>> THEN Finished(s, 500, <<>>)
                   ELSE Finished(s, 200, updated_note)]
    /\ UNCHANGED <<notes, seq, clock, resp, issued, deleted, scen, lastWriter>>

\* delete_note up to the existence check
DeleteSelect(s, note_id) ==
    /\ Free(s)
    /\ LET note == SelectById(notes, note_id)
           r == [IdleReq EXCEPT !.op = "delete", !.id = note_id]
       IN req' = [req EXCEPT ![s] =
                   IF note = <<>>
                   THEN [r EXCEPT !.pc = "done", !.status = 404, !.conn = "closed"]
                   ELSE [r EXCEPT !.pc = "selected", !.existing = note, !.conn = "open"]]
    /\ UNCHANGED <<notes, seq, clock, resp, issued, deleted, scen, lastWriter>>

\* delete_note: DELETE, conn.commit(), conn.close(), the success message
DeleteCommit(s) ==
    /\ req[s].pc = "selected"
    /\ req[s].op = "delete"
    /\ notes' = DeleteRow(notes, req[s].id)
    /\ deleted' = deleted \cup {req[s].id}
    /\ req' = [req EXCEPT ![s] = Finished(s, 200, <<>>)]
    /\ UNCHANGED <<seq, clock, resp, issued, scen, lastWriter>>

ConcIds == 1..MaxConcId
\* the requests SpecConc sends
ConcCreateTitles == {"T"}
ConcCreateContents == {"C"}
ConcPutTitles == {"U"}
ConcPutContents == {"D"}

NextConc ==
    \/ Tick
    \/ \E s \in Slots, t \in ConcCreateTitles, c \in ConcCreateContents :
          seq < MaxConcId /\ CreateInsert(s, Some(t), Some(c))
    \/ \E s \in Slots : CreateReread(s)
    \/ \E s \in Slots, i \in ConcIds, t \in Opt(ConcPutTitles), c \in Opt(ConcPutContents) :
          PutSelect(s, i, t, c)
    \/ \E s \in Slots : PutCompute(s)
    \/ \E s \in Slots : PutUpdate(s)
    \/ \E s \in Slots : PutReread(s)
    \/ \E s \in Slots, i \in ConcIds : DeleteSelect(s, i)
    \/ \E s \in Slots : DeleteCommit(s)

SpecConc == Init /\ [][NextConc]_vars

(* ------------------------------ properties ----------------------------- *)
\* a step of Spec in which the handler of `ops` answered
Answered(ops) == resp'.op \in ops /\ (resp' # resp \/ notes' # notes)

RowOf(tbl, i) == SelectById(tbl, i)[1]
\* the datetime an ISO string of the store stands for
Time(s) == IF Len(s) = 1 THEN <<s[1], 0>> ELSE <<s[1], s[2]>>
BodyIds(b) == [k \in 1..Len(b) |-> b[k].id]

\* C1: a PUT on an existing note keeps every field the request does not
\* supply, keeps the note's id and created_at, and leaves every other note of
\* the store as it was.
PartialUpdateFrame ==
    [][Answered({"put"}) /\ resp'.id \in RowIds(notes) =>
        LET i == resp'.id
            old == RowOf(notes, i)
        IN /\ Cardinality({r \in notes' : r.id = i}) = 1
           /\ resp'.title = None => RowOf(notes', i).title = old.title
           /\ resp'.content = None => RowOf(notes', i).content = old.content
           /\ RowOf(notes', i).created_at = old.created_at
           /\ {r \in notes' : r.id # i} = {r \in notes : r.id # i}
           /\ seq' = seq]_vars

\* a title-only PUT answered 200 on a note whose content is "C", with another
\* note in the store
PartialUpdateWitness ==
    /\ resp.op = "put" /\ resp.status = 200
    /\ resp.title = Some("") /\ resp.content = None
    /\ resp.body[1].title = "" /\ resp.body[1].content = "C"
    /\ Cardinality(notes) >= 2

\* C2: no two stored notes share an id, every create returns an id greater
\* than all ids returned before, and no stored note carries the id of a
\* deleted note.
UniqueMonotonicIds ==
    /\ \A r1, r2 \in notes : r1.id = r2.id => r1 = r2
    /\ \A k, l \in 1..Len(issued) : k < l => issued[k] < issued[l]
    /\ \A k \in 1..Len(issued) : issued[k] >= 1
    /\ \A r \in notes : r.id \notin deleted
    /\ resp.op = "create" /\ resp.status = 200 => resp.body[1].id = issued[Len(issued)]

\* a create answered after the note with the largest id was deleted and the
\* table had become empty
UniqueIdsWitness ==
    /\ resp.op = "create" /\ resp.status = 200
    /\ resp.body[1].id >= 2
    /\ resp.body[1].id - 1 \in deleted
    /\ notes = {resp.body[1]}

\* no stored note was updated before it was created
TimestampsStored == \A r \in notes : TimeLeq(Time(r.created_at), Time(r.updated_at))

\* C3: every stored note has updated_at >= created_at; a create stores equal
\* timestamps; an update, also one without fields, stores the clock reading of
\* the update, which is not before the note's former updated_at.
TimestampInvariant ==
    /\ []TimestampsStored
    /\ [][/\ Answered({"create"}) /\ resp'.status = 200 =>
               \E r \in notes' \ notes :
                    /\ r = resp'.body[1]
                    /\ Time(r.created_at) = Time(r.updated_at)
                    /\ Time(r.created_at) = clock
          /\ Answered({"put"}) /\ resp'.status = 200 =>
               /\ Time(RowOf(notes', resp'.id).updated_at) = clock
               /\ TimeLeq(Time(RowOf(notes, resp'.id).updated_at),
                          Time(RowOf(notes', resp'.id).updated_at))]_vars

\* a PUT without fields answered 200 and the note's updated_at is later than
\* its created_at
TimestampWitness ==
    /\ resp.op = "put" /\ resp.status = 200
    /\ resp.title = None /\ resp.content = None
    /\ TimeLess(Time(resp.body[1].created_at), Time(resp.body[1].updated_at))

\* the list holds exactly the stored notes, each once, latest updated_at first
ListedSorted ==
    resp.op = "list" =>
        /\ resp.status = 200
        /\ Len(resp.body) = Cardinality(notes)
        /\ {resp.body[k] : k \in 1..Len(resp.body)} = notes
        /\ \A k, l \in 1..Len(resp.body) :
              k < l => TimeLeq(Time(resp.body[l].updated_at), Time(resp.body[k].updated_at))

\* the store was changed by exactly: create A, create B, create C, update A
AfterScenario == scen = ScenSteps
ScenarioOrder == <<issued[1], issued[3], issued[2]>>
\* C was created at a later clock reading than B, and A updated at a later one
\* than C was created
ScenarioClockMoved ==
    /\ TimeLess(Time(RowOf(notes, issued[2]).updated_at), Time(RowOf(notes, issued[3]).updated_at))
    /\ TimeLess(Time(RowOf(notes, issued[3]).updated_at), Time(RowOf(notes, issued[1]).updated_at))

\* C4 as stated: GET /notes returns the stored notes by updated_at descending,
\* and after creating A, B, C and then updating A the list is [A, C, B].
ListingOrderAsStated ==
    /\ ListedSorted
    /\ resp.op = "list" /\ AfterScenario => BodyIds(resp.body) = ScenarioOrder

\* C4 amended: GET /notes returns the stored notes by updated_at descending,
\* and after creating A, B, C and then updating A the list is [A, C, B] when
\* the clock moved on between the creation of B, the creation of C and the
\* update of A.
ListingOrder ==
    /\ ListedSorted
    /\ resp.op = "list" /\ AfterScenario /\ ScenarioClockMoved =>
          BodyIds(resp.body) = ScenarioOrder

\* the list answered after the scenario, the clock having moved on
ListingOrderWitness ==
    /\ resp.op = "list" /\ AfterScenario /\ ScenarioClockMoved
    /\ BodyIds(resp.body) = ScenarioOrder

\* what the store and the last answer show of the deleted ids
DeletedGone ==
    /\ \A i \in deleted : SelectById(notes, i) = <<>>
    /\ resp.op \in {"get", "put"} /\ resp.id \in deleted => resp.status = 404
    /\ resp.op = "list" => \A k \in 1..Len(resp.body) : resp.body[k].id \notin deleted

\* C5: once DELETE answered 200 for an id, in every later state the id is in
\* no stored note, a GET or PUT on it answers 404 and no list shows it.
DeletionPermanent ==
    /\ []DeletedGone
    /\ [][\A i \in deleted : i \in deleted' /\ i \notin RowIds(notes')]_vars

\* a PUT on a deleted id answered 404 while later notes are stored
DeletionWitness ==
    /\ resp.op = "put" /\ resp.id \in deleted /\ resp.status = 404
    /\ \E r \in notes : r.id > resp.id

\* C6: GET, PUT or DELETE on an id without a stored note answers 404 and
\* leaves the store as it was; on an id with a stored note it never answers 404.
NotFoundHandling ==
    [][Answered({"get", "put", "delete"}) =>
          IF resp'.id \in RowIds(notes)
          THEN resp'.status # 404
          ELSE /\ resp'.status = 404
               /\ notes' = notes
               /\ seq' = seq]_vars

\* a DELETE on an id without a note answered 404 while other notes are stored
NotFoundWitness ==
    /\ resp.op = "delete" /\ resp.status = 404
    /\ notes # {}

\* C7: every stored note has a non-empty title and a non-empty content.
NonEmptyFields == \A r \in notes : r.title # "" /\ r.content # ""

\* C8: no finished request leaves its connection open.
ConnectionReleased == resp.conn # "open"

\* a finished PUT of SpecConc that passed its existence check
PutDone(s, i) ==
    /\ req[s].pc = "done" /\ req[s].op = "put" /\ req[s].id = i
    /\ req[s].status # 404

InFlightPut(s) == req[s].op = "put" /\ req[s].pc \in {"selected", "computed", "updated"}

\* C9: when two PUTs on the same note, which stays existing, have both
\* finished, both were answered 200 and the note's title, content and
\* updated_at are the values written by the one whose UPDATE was committed
\* last; a PUT in flight can always take its next step.
LastWriteWins ==
    /\ \A s, t \in Slots, i \in ConcIds :
          s # t /\ PutDone(s, i) /\ PutDone(t, i) /\ i \notin deleted /\ lastWriter[i] = s =>
             /\ req[s].status = 200 /\ req[t].status = 200
             /\ SelectById(notes, i) # <<>>
             /\ RowOf(notes, i).title = req[s].new_title
             /\ RowOf(notes, i).content = req[s].new_content
             /\ RowOf(notes, i).updated_at = req[s].now
    /\ \A s \in Slots :
          InFlightPut(s) => ENABLED (PutCompute(s) \/ PutUpdate(s) \/ PutReread(s))

\* two interleaved PUTs have finished: the one committed last wrote the title
\* it had read before the other's commit and an older clock reading, so the
\* other's title and updated_at are gone
LastWriteWinsWitness ==
    \E s, t \in Slots, i \in ConcIds :
        /\ s # t /\ PutDone(s, i) /\ PutDone(t, i) /\ i \notin deleted /\ lastWriter[i] = s
        /\ req[t].new_title = "U" /\ RowOf(notes, i).title = "T"
        /\ RowOf(notes, i).content = "D"
        /\ TextLess(req[s].now, req[t].now)

NoteFields == {"id", "title", "content", "created_at", "updated_at"}

\* C10: a PUT, whatever a concurrent DELETE on its id does, ends with 404 or
\* with 200 and a full note record.
PutOutcome ==
    \A s \in Slots :
        req[s].pc = "done" /\ req[s].op = "put" =>
            \/ req[s].status = 404
            \/ /\ req[s].status = 200
               /\ Len(req[s].body) = 1
               /\ DOMAIN req[s].body[1] = NoteFields

====
